---- MODULE Spec2Model ----
(***************************************************************************)
(* GridGuard: the board engine (utils/gameLogic) and the state container   *)
(* that drives it (hooks/useGameState).                                    *)
(*                                                                         *)
(* A board is a function cells[row][col] of cell records, rows and columns *)
(* counted from 0 as in the source.  Two specifications are given:         *)
(*   EngineSpec  any sequence of the exported engine functions applied to  *)
(*               an empty board;                                           *)
(*   Spec        the useGameState hook: its handlers, the deferred         *)
(*               first-click reveal queued with setTimeout, the timer.     *)
(* The preset difficulties (9x9, 16x16, 16x30) are beyond exhaustive       *)
(* search, so boards are created through the custom configuration path of  *)
(* createNewBoard with dimensions up to MaxRows x MaxCols.                 *)
(***************************************************************************)
EXTENDS Integers, Sequences, FiniteSets, TLC

VARIABLES
    board,       \* useState(board): [cells, rows, cols, totalMines]
    gameState,   \* useState(gameState)
    firstClick,  \* useState(firstClick)
    movesCount,  \* useState(movesCount)
    timeElapsed, \* useState(timeElapsed)
    timerRef,    \* timerRef.current # null: the interval timer is running
    timeouts     \* callbacks queued by setTimeout(..., 0), oldest first

vars == <<board, gameState, firstClick, movesCount, timeElapsed, timerRef, timeouts>>

\* ------------------------------------------------------------------ bounds

MaxRows == 3
MaxCols == 3
MaxMines == 1
\* flag and question marks present on a board at the same time
MaxMarks == 1
\* deferred first-click reveals queued and not yet run
MaxTimeouts == 2
\* seconds counted by the interval timer
MaxTime == 1
\* cells of a board played through the hook, whose state multiplies the board's
MaxGameCells == 4

\* --------------------------------------------------------------- constants

\* faulty variant: the cell's own position is among the directions, as when
\* both offsets are looped over -1..1 without skipping (0, 0)
DIRECTIONS_withCentre ==
    << <<-1, -1>>, <<-1, 0>>, <<-1, 1>>,
       <<0, -1>>,  <<0, 0>>,  <<0, 1>>,
       <<1, -1>>,  <<1, 0>>,  <<1, 1>> >>

DIRECTIONS ==
    << <<-1, -1>>, <<-1, 0>>, <<-1, 1>>,
       <<0, -1>>,             <<0, 1>>,
       <<1, -1>>,  <<1, 0>>,  <<1, 1>> >>

DIFFICULTY_CONFIGS ==
    [BEGINNER     |-> [rows |-> 9,  cols |-> 9,  mines |-> 10],
     INTERMEDIATE |-> [rows |-> 16, cols |-> 16, mines |-> 40],
     EXPERT       |-> [rows |-> 16, cols |-> 30, mines |-> 99],
     CUSTOM       |-> [rows |-> 10, cols |-> 10, mines |-> 15]]

\* the custom configurations explored; createNewBoard validates nothing
Configs ==
    [rows : 1..MaxRows, cols : 1..MaxCols, mines : 0..MaxMines]

\* those of them played through the hook
GameConfigs ==
    {config \in Configs : config.rows * config.cols <= MaxGameCells}

\* ------------------------------------------------------------ board engine

Min(a, b) == IF a < b THEN a ELSE b

\* `cell-${row}-${col}`: the text is determined by, and determines, the pair
generateCellId(row, col) == <<"cell", row, col>>

createEmptyCell(row, col) ==
    [id            |-> generateCellId(row, col),
     row           |-> row,
     col           |-> col,
     isMine        |-> FALSE,
     isRevealed    |-> FALSE,
     isFlagged     |-> FALSE,
     isQuestioned  |-> FALSE,
     neighborMines |-> 0,
     isExploded    |-> "undefined"]

\* faulty variant: the two lengths are taken in the wrong order
initializeEmptyBoard_transposed(rows, cols) ==
    [row \in 0..(cols - 1) |-> [col \in 0..(rows - 1) |-> createEmptyCell(row, col)]]

initializeEmptyBoard(rows, cols) ==
    [row \in 0..(rows - 1) |-> [col \in 0..(cols - 1) |-> createEmptyCell(row, col)]]

\* cells.length and cells[0].length
Rows(cells) == Cardinality(DOMAIN cells)
Cols(cells) == Cardinality(DOMAIN cells[0])

\* every position of a board, as Position records
Positions(cells) ==
    {[row |-> r, col |-> c] : r \in DOMAIN cells, c \in DOMAIN cells[0]}

isValidPosition(row, col, rows, cols) ==
    row >= 0 /\ row < rows /\ col >= 0 /\ col < cols

getNeighborPositions(row, col, rows, cols) ==
    SelectSeq([i \in 1..Len(DIRECTIONS) |->
                  [row |-> row + DIRECTIONS[i][1], col |-> col + DIRECTIONS[i][2]]],
              LAMBDA pos : isValidPosition(pos.row, pos.col, rows, cols))

\* faulty variant: only the clicked cell is excluded, its neighbours are not
excludedPositions_clickOnly(cells, fc) ==
    {generateCellId(fc.row, fc.col)}

\* the ids placeMines excludes: the first click and its neighbours
excludedPositions(cells, fc) ==
    LET neighbors == getNeighborPositions(fc.row, fc.col, Rows(cells), Cols(cells))
    IN  {generateCellId(fc.row, fc.col)}
            \cup {generateCellId(neighbors[i].row, neighbors[i].col) : i \in 1..Len(neighbors)}

availablePositions(cells, fc) ==
    {pos \in Positions(cells) :
        generateCellId(pos.row, pos.col) \notin excludedPositions(cells, fc)}

\* faulty variant: the slice keeps one position more than asked for
minePositionChoices_oneMore(cells, totalMines, fc) ==
    LET available == availablePositions(cells, fc)
    IN  {S \in SUBSET available :
            Cardinality(S) = Min(totalMines + 1, Cardinality(available))}

\* sort(() => Math.random() - 0.5) leaves some permutation of the available
\* positions; slice(0, min(totalMines, length)) keeps its first elements.
\* The outcomes are the subsets of that size.
minePositionChoices(cells, totalMines, fc) ==
    LET available == availablePositions(cells, fc)
    IN  {S \in SUBSET available :
            Cardinality(S) = Min(totalMines, Cardinality(available))}

\* faulty variant: the mines are put on a newly built grid, marks are lost
placeMines_onNewGrid(cells, minePositions) ==
    [r \in DOMAIN cells |-> [c \in DOMAIN cells[r] |->
        IF [row |-> r, col |-> c] \in minePositions
        THEN [createEmptyCell(r, c) EXCEPT !.isMine = TRUE]
        ELSE createEmptyCell(r, c)]]

\* placeMines with the outcome of the random shuffle given as minePositions
placeMines(cells, minePositions) ==
    [r \in DOMAIN cells |-> [c \in DOMAIN cells[r] |->
        IF [row |-> r, col |-> c] \in minePositions
        THEN [cells[r][c] EXCEPT !.isMine = TRUE]
        ELSE cells[r][c]]]

\* faulty variant: diagonal neighbours are not counted
mineCount_orthogonal(cells, row, col) ==
    LET neighbors == getNeighborPositions(row, col, Rows(cells), Cols(cells))
    IN  Cardinality({i \in 1..Len(neighbors) :
                        /\ cells[neighbors[i].row][neighbors[i].col].isMine
                        /\ (neighbors[i].row = row \/ neighbors[i].col = col)})

\* neighbors.filter(pos => newCells[pos.row][pos.col].isMine).length
mineCount(cells, row, col) ==
    LET neighbors == getNeighborPositions(row, col, Rows(cells), Cols(cells))
    IN  Cardinality({i \in 1..Len(neighbors) :
                        cells[neighbors[i].row][neighbors[i].col].isMine})

calculateNeighborMines(cells) ==
    [row \in DOMAIN cells |-> [col \in DOMAIN cells[row] |->
        IF ~cells[row][col].isMine
        THEN [cells[row][col] EXCEPT !.neighborMines = mineCount(cells, row, col)]
        ELSE cells[row][col]]]

\* the outcome of a call that throws instead of returning a board: reading a
\* property of undefined raises a TypeError
TypeError == <<"TypeError">>

RECURSIVE revealCell(_, _, _)
RECURSIVE revealNeighbors(_, _, _)

\* faulty variant: the neighbours are marked revealed without flooding on
revealNeighbors_oneLevel(newCells, neighbors, i) ==
    [r \in DOMAIN newCells |-> [c \in DOMAIN newCells[r] |->
        IF /\ \E k \in i..Len(neighbors) : neighbors[k] = [row |-> r, col |-> c]
           /\ ~newCells[r][c].isRevealed
           /\ ~newCells[r][c].isFlagged
        THEN [newCells[r][c] EXCEPT !.isRevealed = TRUE]
        ELSE newCells[r][c]]]

\* faulty variant: a neighbour carrying a question mark is skipped like a
\* flagged one
revealNeighbors_skipsQuestioned(newCells, neighbors, i) ==
    IF i > Len(neighbors)
    THEN newCells
    ELSE LET n == neighbors[i]
         IN  IF /\ ~newCells[n.row][n.col].isRevealed
                /\ ~newCells[n.row][n.col].isFlagged
                /\ ~newCells[n.row][n.col].isQuestioned
             THEN revealNeighbors(revealCell(newCells, n.row, n.col), neighbors, i + 1)
             ELSE revealNeighbors(newCells, neighbors, i + 1)

\* faulty variant: each neighbour is revealed on the board as it was before the
\* loop and the result replaces newCells, dropping what earlier neighbours
\* revealed
revealNeighbors_dropsEarlier(newCells, neighbors, i) ==
    IF i > Len(neighbors)
    THEN newCells
    ELSE LET n     == neighbors[i]
             later == revealNeighbors(newCells, neighbors, i + 1)
         IN  IF later # newCells
             THEN later
             ELSE IF ~newCells[n.row][n.col].isRevealed /\ ~newCells[n.row][n.col].isFlagged
                  THEN revealCell(newCells, n.row, n.col)
                  ELSE newCells

\* the forEach over the neighbours, from neighbour i on: each hidden, unflagged
\* neighbour is revealed in turn and the result copied back into newCells
revealNeighbors(newCells, neighbors, i) ==
    IF i > Len(neighbors)
    THEN newCells
    ELSE LET n == neighbors[i]
         IN  IF ~newCells[n.row][n.col].isRevealed /\ ~newCells[n.row][n.col].isFlagged
             THEN revealNeighbors(revealCell(newCells, n.row, n.col), neighbors, i + 1)
             ELSE revealNeighbors(newCells, neighbors, i + 1)

\* faulty variant: no bounds check, the read of cells[row][col] throws
revealCell_noBoundsCheck(cells, row, col) ==
    IF ~isValidPosition(row, col, Rows(cells), Cols(cells))
    THEN TypeError
    ELSE LET cell == cells[row][col]
         IN  IF cell.isRevealed \/ cell.isFlagged
             THEN cells
             ELSE LET newCells == [cells EXCEPT ![row][col].isRevealed = TRUE]
                  IN  IF cell.neighborMines = 0 /\ ~cell.isMine
                      THEN revealNeighbors(newCells,
                               getNeighborPositions(row, col, Rows(cells), Cols(cells)), 1)
                      ELSE newCells

\* faulty variant: the flood starts from any cell without a count, mines too
revealCell_floodsFromMine(cells, row, col) ==
    IF ~isValidPosition(row, col, Rows(cells), Cols(cells))
    THEN cells
    ELSE LET cell == cells[row][col]
         IN  IF cell.isRevealed \/ cell.isFlagged
             THEN cells
             ELSE LET newCells == [cells EXCEPT ![row][col].isRevealed = TRUE]
                  IN  IF cell.neighborMines = 0
                      THEN revealNeighbors(newCells,
                               getNeighborPositions(row, col, Rows(cells), Cols(cells)), 1)
                      ELSE newCells

\* faulty variant: the flood goes on from every cell that is not a mine,
\* whatever its count
revealCell_floodsFromCounted(cells, row, col) ==
    IF ~isValidPosition(row, col, Rows(cells), Cols(cells))
    THEN cells
    ELSE LET cell == cells[row][col]
         IN  IF cell.isRevealed \/ cell.isFlagged
             THEN cells
             ELSE LET newCells == [cells EXCEPT ![row][col].isRevealed = TRUE]
                  IN  IF ~cell.isMine
                      THEN revealNeighbors(newCells,
                               getNeighborPositions(row, col, Rows(cells), Cols(cells)), 1)
                      ELSE newCells

\* faulty variant: a flagged cell is revealed like any hidden cell
revealCell_ignoresFlag(cells, row, col) ==
    IF ~isValidPosition(row, col, Rows(cells), Cols(cells))
    THEN cells
    ELSE LET cell == cells[row][col]
         IN  IF cell.isRevealed
             THEN cells
             ELSE LET newCells == [cells EXCEPT ![row][col].isRevealed = TRUE]
                  IN  IF cell.neighborMines = 0 /\ ~cell.isMine
                      THEN revealNeighbors(newCells,
                               getNeighborPositions(row, col, Rows(cells), Cols(cells)), 1)
                      ELSE newCells

revealCell(cells, row, col) ==
    IF ~isValidPosition(row, col, Rows(cells), Cols(cells))
    THEN cells
    ELSE LET cell == cells[row][col]
         IN  IF cell.isRevealed \/ cell.isFlagged
             THEN cells
             ELSE LET newCells == [cells EXCEPT ![row][col].isRevealed = TRUE]
                  IN  IF cell.neighborMines = 0 /\ ~cell.isMine
                      THEN revealNeighbors(newCells,
                               getNeighborPositions(row, col, Rows(cells), Cols(cells)), 1)
                      ELSE newCells

\* faulty variant: taking a flag off leaves a question mark, as in the
\* flag / question / none cycle of other implementations
toggleFlag_cyclesToQuestion(cells, row, col) ==
    LET cell == cells[row][col]
    IN  IF ~cell.isRevealed
        THEN [cells EXCEPT ![row][col] =
                 [cell EXCEPT !.isFlagged = ~cell.isFlagged,
                              !.isQuestioned = cell.isFlagged]]
        ELSE cells

\* faulty variant: the cell's isRevealed is not looked at
toggleFlag_onRevealed(cells, row, col) ==
    LET cell == cells[row][col]
    IN  [cells EXCEPT ![row][col] =
            [cell EXCEPT !.isFlagged = ~cell.isFlagged,
                         !.isQuestioned = IF ~cell.isFlagged THEN FALSE
                                          ELSE cell.isQuestioned]]

\* faulty variant: setting the flag leaves the question mark in place
toggleFlag_keepsQuestion(cells, row, col) ==
    LET cell == cells[row][col]
    IN  IF ~cell.isRevealed
        THEN [cells EXCEPT ![row][col].isFlagged = ~cell.isFlagged]
        ELSE cells

\* newCells[row][col] is read with no bounds check: outside the grid either
\* newCells[row] or the cell is undefined and the next property read throws
toggleFlag(cells, row, col) ==
    IF ~isValidPosition(row, col, Rows(cells), Cols(cells))
    THEN TypeError
    ELSE LET cell == cells[row][col]
         IN  IF ~cell.isRevealed
             THEN [cells EXCEPT ![row][col] =
                      [cell EXCEPT !.isFlagged = ~cell.isFlagged,
                                   !.isQuestioned = IF ~cell.isFlagged THEN FALSE
                                                    ELSE cell.isQuestioned]]
             ELSE cells

\* faulty variant: a flagged cell takes a question mark too
toggleQuestion_onFlagged(cells, row, col) ==
    LET cell == cells[row][col]
    IN  IF ~cell.isRevealed
        THEN [cells EXCEPT ![row][col].isQuestioned = ~cell.isQuestioned]
        ELSE cells

toggleQuestion(cells, row, col) ==
    IF ~isValidPosition(row, col, Rows(cells), Cols(cells))
    THEN TypeError
    ELSE LET cell == cells[row][col]
         IN  IF ~cell.isRevealed /\ ~cell.isFlagged
             THEN [cells EXCEPT ![row][col].isQuestioned = ~cell.isQuestioned]
             ELSE cells

\* cells.flat(): the cells in one array, row after row
flat(cells) ==
    [i \in 1..(Rows(cells) * Cols(cells)) |->
        cells[(i - 1) \div Cols(cells)][(i - 1) % Cols(cells)]]

\* faulty variant: revealed mines are left out of the count
getRevealedCount_safeOnly(cells) ==
    Len(SelectSeq(flat(cells), LAMBDA cell : cell.isRevealed /\ ~cell.isMine))

\* cells.flat().filter(cell => cell.isRevealed).length
getRevealedCount(cells) ==
    Len(SelectSeq(flat(cells), LAMBDA cell : cell.isRevealed))

\* faulty variant: question marks are counted as flags
getFlagCount_countsQuestions(cells) ==
    Len(SelectSeq(flat(cells), LAMBDA cell : cell.isFlagged \/ cell.isQuestioned))

\* cells.flat().filter(cell => cell.isFlagged).length
getFlagCount(cells) ==
    Len(SelectSeq(flat(cells), LAMBDA cell : cell.isFlagged))

\* the hook's remainingMines: board.totalMines - getFlagCount(board.cells)
remainingMines == board.totalMines - getFlagCount(board.cells)

\* faulty variant: flagged cells are counted with the revealed ones
checkWinCondition_countsFlags(cells, totalMines) ==
    LET totalCells    == Rows(cells) * Cols(cells)
        revealedCells == Cardinality({pos \in Positions(cells) :
                                         cells[pos.row][pos.col].isRevealed
                                         \/ cells[pos.row][pos.col].isFlagged})
    IN  revealedCells = totalCells - totalMines

checkWinCondition(cells, totalMines) ==
    LET totalCells    == Rows(cells) * Cols(cells)
        revealedCells == Cardinality({pos \in Positions(cells) :
                                         cells[pos.row][pos.col].isRevealed})
    IN  revealedCells = totalCells - totalMines

\* faulty variant: every cell is revealed, not only the mines
revealAllMines_everyCell(cells, explodedRow, explodedCol) ==
    [r \in DOMAIN cells |-> [c \in DOMAIN cells[r] |->
        LET cell == cells[r][c]
        IN  [cell EXCEPT
                !.isRevealed = TRUE,
                !.isExploded = IF cell.isMine /\ cell.row = explodedRow
                                              /\ cell.col = explodedCol
                               THEN "true" ELSE "false"]]]

\* faulty variant: isRevealed is set from isMine, hiding the safe cells
revealAllMines_hidesSafe(cells, explodedRow, explodedCol) ==
    [r \in DOMAIN cells |-> [c \in DOMAIN cells[r] |->
        LET cell == cells[r][c]
        IN  [cell EXCEPT
                !.isRevealed = cell.isMine,
                !.isExploded = IF cell.isMine /\ cell.row = explodedRow
                                              /\ cell.col = explodedCol
                               THEN "true" ELSE "false"]]]

\* faulty variant: every mine is marked as the exploded one
revealAllMines_allExploded(cells, explodedRow, explodedCol) ==
    [r \in DOMAIN cells |-> [c \in DOMAIN cells[r] |->
        LET cell == cells[r][c]
        IN  [cell EXCEPT
                !.isRevealed = IF cell.isMine THEN TRUE ELSE cell.isRevealed,
                !.isExploded = IF cell.isMine THEN "true" ELSE "false"]]]

revealAllMines(cells, explodedRow, explodedCol) ==
    [r \in DOMAIN cells |-> [c \in DOMAIN cells[r] |->
        LET cell == cells[r][c]
        IN  [cell EXCEPT
                !.isRevealed = IF cell.isMine THEN TRUE ELSE cell.isRevealed,
                !.isExploded = IF cell.isMine /\ cell.row = explodedRow
                                              /\ cell.col = explodedCol
                               THEN "true" ELSE "false"]]]

\* customConfig is a configuration record, or <<>> when the argument is absent
createNewBoard(difficulty, customConfig) ==
    LET config == IF difficulty = "CUSTOM" /\ customConfig # <<>>
                  THEN customConfig
                  ELSE DIFFICULTY_CONFIGS[difficulty]
    IN  [cells      |-> initializeEmptyBoard(config.rows, config.cols),
         rows       |-> config.rows,
         cols       |-> config.cols,
         totalMines |-> config.mines]

\* ---------------------------------------------------------------- helpers

\* flag and question marks on the board
MarkCount(cells) ==
    Cardinality({pos \in Positions(cells) :
        cells[pos.row][pos.col].isFlagged \/ cells[pos.row][pos.col].isQuestioned})

NoMines(cells) ==
    \A pos \in Positions(cells) : ~cells[pos.row][pos.col].isMine

\* the neighbour counts are those of the mines now on the board
CountsCurrent(cells) == calculateNeighborMines(cells) = cells

\* revealAllMines has run: it alone gives isExploded a value
MinesShown(cells) ==
    \E pos \in Positions(cells) : cells[pos.row][pos.col].isExploded # "undefined"

\* ------------------------------------------------- the engine, op by op
\* The exported functions applied in any order to an empty board, within the
\* calling contract: placeMines once, while firstClick is set;
\* calculateNeighborMines right after it; revealAllMines last, for a mine.

\* of the container's state the engine's calls use only firstClick, the flag by
\* which the caller places mines once
Container == <<gameState, movesCount, timeElapsed, timerRef, timeouts>>

EngineInit ==
    /\ \E config \in Configs : board = createNewBoard("CUSTOM", config)
    /\ gameState = "IDLE"
    /\ firstClick = TRUE
    /\ movesCount = 0
    /\ timeElapsed = 0
    /\ timerRef = FALSE
    /\ timeouts = <<>>

EngineLive == CountsCurrent(board.cells) /\ ~MinesShown(board.cells)

EnginePlaceMines ==
    /\ firstClick
    /\ ~MinesShown(board.cells)
    /\ \E fc \in Positions(board.cells) :
         \E minePositions \in minePositionChoices(board.cells, board.totalMines, fc) :
            board' = [board EXCEPT !.cells = placeMines(board.cells, minePositions)]
    /\ firstClick' = FALSE
    /\ UNCHANGED Container

EngineCalculateNeighborMines ==
    /\ ~CountsCurrent(board.cells)
    /\ board' = [board EXCEPT !.cells = calculateNeighborMines(board.cells)]
    /\ UNCHANGED <<firstClick, Container>>

EngineRevealCell ==
    /\ EngineLive
    /\ \E pos \in Positions(board.cells) :
         board' = [board EXCEPT !.cells = revealCell(board.cells, pos.row, pos.col)]
    /\ UNCHANGED <<firstClick, Container>>

EngineToggleFlag ==
    /\ EngineLive
    /\ \E pos \in Positions(board.cells) :
         /\ MarkCount(toggleFlag(board.cells, pos.row, pos.col)) <= MaxMarks
         /\ board' = [board EXCEPT !.cells = toggleFlag(board.cells, pos.row, pos.col)]
    /\ UNCHANGED <<firstClick, Container>>

EngineToggleQuestion ==
    /\ EngineLive
    /\ \E pos \in Positions(board.cells) :
         /\ MarkCount(toggleQuestion(board.cells, pos.row, pos.col)) <= MaxMarks
         /\ board' = [board EXCEPT !.cells = toggleQuestion(board.cells, pos.row, pos.col)]
    /\ UNCHANGED <<firstClick, Container>>

EngineRevealAllMines ==
    /\ EngineLive
    /\ \E pos \in Positions(board.cells) :
         /\ board.cells[pos.row][pos.col].isMine
         /\ board' = [board EXCEPT !.cells = revealAllMines(board.cells, pos.row, pos.col)]
    /\ UNCHANGED <<firstClick, Container>>

EngineNext ==
    \/ EnginePlaceMines
    \/ EngineCalculateNeighborMines
    \/ EngineRevealCell
    \/ EngineToggleFlag
    \/ EngineToggleQuestion
    \/ EngineRevealAllMines

EngineSpec == EngineInit /\ [][EngineNext]_vars

\* ------------------------------------------------- hooks/useGameState
\* Each handler runs to completion on the state of the latest render.  The
\* callback handleRevealCell queues with setTimeout(..., 0) runs later, as a
\* step of its own: other events may be handled before it.

Init ==
    /\ \E config \in GameConfigs : board = createNewBoard("CUSTOM", config)
    /\ gameState = "IDLE"
    /\ firstClick = TRUE
    /\ movesCount = 0
    /\ timeElapsed = 0
    /\ timerRef = FALSE
    /\ timeouts = <<>>

\* handleFirstClick, then the rest of the first-click branch of handleRevealCell
handleFirstClick(row, col) ==
    /\ Len(timeouts) < MaxTimeouts
    /\ \E minePositions \in
            minePositionChoices(board.cells, board.totalMines, [row |-> row, col |-> col]) :
         LET cellsWithMines  == placeMines(board.cells, minePositions)
             cellsWithCounts == calculateNeighborMines(cellsWithMines)
         IN  board' = [board EXCEPT !.cells = cellsWithCounts]
    /\ firstClick' = FALSE
    /\ gameState' = "PLAYING"
    /\ timerRef' = TRUE
    /\ timeouts' = Append(timeouts, [row |-> row, col |-> col])
    /\ movesCount' = 1
    /\ UNCHANGED timeElapsed

handleRevealCell(row, col) ==
    LET cell == board.cells[row][col]
    IN  IF gameState = "WON" \/ gameState = "LOST"
        THEN UNCHANGED vars
        ELSE IF cell.isRevealed \/ cell.isFlagged
        THEN UNCHANGED vars
        ELSE IF firstClick
        THEN handleFirstClick(row, col)
        ELSE IF cell.isMine
        THEN /\ movesCount' = movesCount + 1
             /\ board' = [board EXCEPT !.cells = revealAllMines(board.cells, row, col)]
             /\ gameState' = "LOST"
             /\ timerRef' = FALSE
             /\ UNCHANGED <<firstClick, timeElapsed, timeouts>>
        ELSE LET newCells == revealCell(board.cells, row, col)
             IN  /\ movesCount' = movesCount + 1
                 /\ board' = [board EXCEPT !.cells = newCells]
                 /\ IF checkWinCondition(newCells, board.totalMines)
                    THEN gameState' = "WON" /\ timerRef' = FALSE
                    ELSE UNCHANGED <<gameState, timerRef>>
                 /\ UNCHANGED <<firstClick, timeElapsed, timeouts>>

\* the callback of setTimeout(..., 0) queued by the first click
deferredReveal ==
    /\ timeouts # <<>>
    /\ board' = [board EXCEPT
                    !.cells = revealCell(board.cells, Head(timeouts).row, Head(timeouts).col)]
    /\ timeouts' = Tail(timeouts)
    /\ UNCHANGED <<gameState, firstClick, movesCount, timeElapsed, timerRef>>

handleFlagCell(row, col) ==
    IF gameState = "WON" \/ gameState = "LOST"
    THEN UNCHANGED vars
    ELSE /\ MarkCount(toggleFlag(board.cells, row, col)) <= MaxMarks
         /\ board' = [board EXCEPT !.cells = toggleFlag(board.cells, row, col)]
         /\ UNCHANGED <<gameState, firstClick, movesCount, timeElapsed, timerRef, timeouts>>

handleQuestionCell(row, col) ==
    IF gameState = "WON" \/ gameState = "LOST"
    THEN UNCHANGED vars
    ELSE /\ MarkCount(toggleQuestion(board.cells, row, col)) <= MaxMarks
         /\ board' = [board EXCEPT !.cells = toggleQuestion(board.cells, row, col)]
         /\ UNCHANGED <<gameState, firstClick, movesCount, timeElapsed, timerRef, timeouts>>

\* faulty variant: the interval timer is left as it is
newGame_keepsTimer(customConfig) ==
    /\ gameState' = "IDLE"
    /\ board' = createNewBoard("CUSTOM", customConfig)
    /\ firstClick' = TRUE
    /\ timeElapsed' = 0
    /\ movesCount' = 0
    /\ UNCHANGED <<timerRef, timeouts>>

\* newGame(Difficulty.CUSTOM, customConfig)
newGame(customConfig) ==
    /\ timerRef' = FALSE
    /\ gameState' = "IDLE"
    /\ board' = createNewBoard("CUSTOM", customConfig)
    /\ firstClick' = TRUE
    /\ timeElapsed' = 0
    /\ movesCount' = 0
    /\ UNCHANGED timeouts

\* faulty variant: the interval is left running through the pause
pauseGame_keepsTimer ==
    /\ gameState = "PLAYING"
    /\ gameState' = "PAUSED"
    /\ UNCHANGED <<board, firstClick, movesCount, timeElapsed, timerRef, timeouts>>

pauseGame ==
    /\ gameState = "PLAYING"
    /\ gameState' = "PAUSED"
    /\ timerRef' = FALSE
    /\ UNCHANGED <<board, firstClick, movesCount, timeElapsed, timeouts>>

resumeGame ==
    /\ gameState = "PAUSED"
    /\ gameState' = "PLAYING"
    /\ timerRef' = TRUE
    /\ UNCHANGED <<board, firstClick, movesCount, timeElapsed, timeouts>>

\* the setInterval callback of startTimer
timerTick ==
    /\ timerRef
    /\ timeElapsed < MaxTime
    /\ timeElapsed' = timeElapsed + 1
    /\ UNCHANGED <<board, gameState, firstClick, movesCount, timerRef, timeouts>>

RevealRequest == \E pos \in Positions(board.cells) : handleRevealCell(pos.row, pos.col)
FlagRequest == \E pos \in Positions(board.cells) : handleFlagCell(pos.row, pos.col)
QuestionRequest == \E pos \in Positions(board.cells) : handleQuestionCell(pos.row, pos.col)
NewGameRequest == \E config \in GameConfigs : newGame(config)

Next ==
    \/ RevealRequest
    \/ deferredReveal
    \/ FlagRequest
    \/ QuestionRequest
    \/ NewGameRequest
    \/ pauseGame
    \/ resumeGame
    \/ timerTick

Spec == Init /\ [][Next]_vars

\* ------------------------------------------------------------- properties
\* Notions the properties are stated with, defined apart from the engine's code.

Abs(n) == IF n < 0 THEN -n ELSE n

\* Chebyshev distance 1
Adjacent(a, b) ==
    a # b /\ Abs(a.row - b.row) <= 1 /\ Abs(a.col - b.col) <= 1

At(cells, pos) == cells[pos.row][pos.col]

MineSet(cells) == {pos \in Positions(cells) : At(cells, pos).isMine}

RevealedSet(cells) == {pos \in Positions(cells) : At(cells, pos).isRevealed}

\* the mines among the in-bounds 8-neighbours, counted over the whole grid
BruteCount(cells, pos) ==
    Cardinality({q \in MineSet(cells) : Adjacent(pos, q)})

\* the cells placeMines may mine for a first click at fc
Eligible(cells, fc) ==
    {q \in Positions(cells) : q # fc /\ ~Adjacent(fc, q)}

IsZero(cells, pos) ==
    ~At(cells, pos).isMine /\ At(cells, pos).neighborMines = 0

Hidden(cells, pos) ==
    ~At(cells, pos).isRevealed /\ ~At(cells, pos).isFlagged

AllSafeRevealed(cells) ==
    \A pos \in Positions(cells) : ~At(cells, pos).isMine => At(cells, pos).isRevealed

Fresh(cells) == cells = initializeEmptyBoard(Rows(cells), Cols(cells))

RECURSIVE ZeroClosure(_, _)
\* the zero cells connected to those of S through zero cells
ZeroClosure(cells, S) ==
    LET T == S \cup {q \in Positions(cells) :
                        IsZero(cells, q) /\ \E z \in S : Adjacent(z, q)}
    IN  IF T = S THEN S ELSE ZeroClosure(cells, T)

\* the connected region of zero cells of a zero cell pos
ZeroRegion(cells, pos) == ZeroClosure(cells, {pos})

\* the non-zero cells bordering a region
Border(cells, Z) ==
    {q \in Positions(cells) \ Z :
        At(cells, q).neighborMines > 0 /\ \E z \in Z : Adjacent(z, q)}

RECURSIVE FloodClosure(_, _)
\* the least set holding S and, with each zero cell, its neighbours that are
\* hidden and unflagged in cells
FloodClosure(cells, S) ==
    LET T == S \cup {q \in Positions(cells) :
                        Hidden(cells, q)
                        /\ \E z \in S : IsZero(cells, z) /\ Adjacent(z, q)}
    IN  IF T = S THEN S ELSE FloodClosure(cells, T)

\* the targets of the flood claims: hidden, unflagged zero cells
FloodStart(cells) ==
    {pos \in Positions(cells) : Hidden(cells, pos) /\ IsZero(cells, pos)}

\* C1: for every board without mines, every mine count and every in-bounds
\* first click, placeMines leaves the clicked cell and each of its in-bounds
\* neighbours without a mine, whatever the shuffle gives.
C1_FirstClickZoneSafe ==
    NoMines(board.cells) =>
        \A fc \in Positions(board.cells) :
        \A totalMines \in 0..(Rows(board.cells) * Cols(board.cells) + 1) :
        \A minePositions \in minePositionChoices(board.cells, totalMines, fc) :
            LET placed == placeMines(board.cells, minePositions)
            IN  \A q \in Positions(board.cells) :
                    (q = fc \/ Adjacent(fc, q)) => ~At(placed, q).isMine

\* a board just mined by placeMines: its mines are the choice made for some click
C1_Witness ==
    /\ ~firstClick
    /\ MineSet(board.cells) # {}
    /\ \E fc \in Positions(board.cells) :
         /\ MineSet(board.cells) \in
               minePositionChoices(initializeEmptyBoard(board.rows, board.cols),
                                   board.totalMines, fc)
         /\ \E q \in Positions(board.cells) : Adjacent(fc, q)

\* C3: for every board without mines, mine count m and first click, placeMines
\* has an outcome and each outcome mines exactly min(m, eligibleCount) cells,
\* eligibleCount counting the cells that are neither the click nor next to it.
C3_MineCountClamped ==
    NoMines(board.cells) =>
        \A fc \in Positions(board.cells) :
        \A totalMines \in 0..(Rows(board.cells) * Cols(board.cells) + 1) :
            /\ minePositionChoices(board.cells, totalMines, fc) # {}
            /\ \A minePositions \in minePositionChoices(board.cells, totalMines, fc) :
                 Cardinality(MineSet(placeMines(board.cells, minePositions)))
                     = Min(totalMines, Cardinality(Eligible(board.cells, fc)))

\* mines placed for a click that left room for fewer than the configuration asks
C3_Witness ==
    /\ ~firstClick
    /\ Cardinality(MineSet(board.cells)) < board.totalMines
    /\ \E fc \in Positions(board.cells) :
         Cardinality(Eligible(board.cells, fc)) < board.totalMines

\* C4: after calculateNeighborMines every non-mine cell's neighborMines is the
\* number of mines among its in-bounds 8-neighbours: on every board reached,
\* and on an empty board mined in any way at all (a 3x3 board mined at (0,0) and
\* (2,2) gives the centre 2).
C4_NeighborCounts ==
    /\ \A pos \in Positions(board.cells) :
         LET counted == calculateNeighborMines(board.cells)
         IN  ~At(counted, pos).isMine =>
                At(counted, pos).neighborMines = BruteCount(board.cells, pos)
    /\ Fresh(board.cells) =>
         \A mines \in SUBSET Positions(board.cells) :
            LET counted == calculateNeighborMines(placeMines(board.cells, mines))
            IN  \A pos \in Positions(board.cells) \ mines :
                    At(counted, pos).neighborMines
                        = Cardinality({q \in mines : Adjacent(pos, q)})
    /\ (board.rows = 3 /\ board.cols = 3) =>
         LET mines == {[row |-> 0, col |-> 0], [row |-> 2, col |-> 2]}
         IN  calculateNeighborMines(
                 placeMines(initializeEmptyBoard(3, 3), mines))[1][1].neighborMines = 2

\* counts computed for a mined board: some cell counts a mine
C4_Witness ==
    /\ MineSet(board.cells) # {}
    /\ CountsCurrent(board.cells)
    /\ \E pos \in Positions(board.cells) :
         ~At(board.cells, pos).isMine /\ At(board.cells, pos).neighborMines >= 1

\* C5 as claimed: on a board with counts computed, revealing a hidden, unflagged
\* zero cell leaves revealed every cell of its connected region of zero cells
\* and every non-zero cell bordering that region.
C5_WholeRegionRevealed ==
    (MineSet(board.cells) # {} /\ CountsCurrent(board.cells)) =>
        \A pos \in FloodStart(board.cells) :
            LET revealed == revealCell(board.cells, pos.row, pos.col)
                region   == ZeroRegion(board.cells, pos)
            IN  \A q \in region \cup Border(board.cells, region) :
                    At(revealed, q).isRevealed

\* C5 as amended: on a board with counts computed, revealing a hidden, unflagged
\* zero cell leaves revealed the cell, every cell reached from it through zero
\* cells by steps to neighbours that were hidden and unflagged, and no flagged
\* cell that was hidden.
C5_FloodReveals ==
    CountsCurrent(board.cells) =>
        \A pos \in FloodStart(board.cells) :
            LET revealed == revealCell(board.cells, pos.row, pos.col)
            IN  /\ \A q \in FloodClosure(board.cells, {pos}) : At(revealed, q).isRevealed
                /\ \A q \in Positions(board.cells) :
                     (At(board.cells, q).isFlagged /\ ~At(board.cells, q).isRevealed)
                        => ~At(revealed, q).isRevealed

\* a flood that ran on a mined board and went around a flagged cell
C5_Witness ==
    /\ MineSet(board.cells) # {}
    /\ CountsCurrent(board.cells)
    /\ \E z \in RevealedSet(board.cells) :
         /\ IsZero(board.cells, z)
         /\ \E q \in Positions(board.cells) :
              Adjacent(z, q) /\ At(board.cells, q).isFlagged /\ ~At(board.cells, q).isRevealed
         /\ \E q \in Positions(board.cells) :
              Adjacent(z, q) /\ At(board.cells, q).isRevealed
                             /\ At(board.cells, q).neighborMines > 0

\* C6: revealCell on a cell that is revealed or flagged returns its input board.
C6_RevealNoOp ==
    \A pos \in Positions(board.cells) :
        (At(board.cells, pos).isRevealed \/ At(board.cells, pos).isFlagged)
            => revealCell(board.cells, pos.row, pos.col) = board.cells

\* a board with a revealed cell and a flagged hidden cell to call revealCell on
C6_Witness ==
    /\ \E pos \in Positions(board.cells) :
         At(board.cells, pos).isFlagged /\ ~At(board.cells, pos).isRevealed
    /\ \E pos \in Positions(board.cells) :
         At(board.cells, pos).isRevealed /\ ~At(board.cells, pos).isFlagged

\* some cell that is not a mine turns from hidden to revealed in this step
SafeCellRevealed ==
    /\ board'.rows = board.rows
    /\ board'.cols = board.cols
    /\ \E pos \in Positions(board.cells) :
         /\ ~At(board.cells, pos).isRevealed
         /\ At(board'.cells, pos).isRevealed
         /\ ~At(board'.cells, pos).isMine

\* the callback queued by a first click runs in this step
DeferredStep == timeouts # <<>> /\ timeouts' = Tail(timeouts)

\* C2: the step handling a reveal request while firstClick is true never ends
\* in LOST, and the cell its deferred reveal turns from hidden to revealed is
\* not a mine.
C2_FirstClickSafe ==
    [][ /\ firstClick => gameState' # "LOST"
        /\ DeferredStep =>
             LET pos == Head(timeouts)
             IN  (/\ isValidPosition(pos.row, pos.col, board.rows, board.cols)
                  /\ ~At(board.cells, pos).isRevealed
                  /\ At(board'.cells, pos).isRevealed)
                     => ~At(board'.cells, pos).isMine ]_vars

\* C7: every step of the hook that reveals a cell that is not a mine, the
\* deferred reveal of the first click included, ends in WON when it leaves all
\* cells that are not mines revealed.
C7_WinEvaluated ==
    [][ (SafeCellRevealed /\ AllSafeRevealed(board'.cells)) => gameState' = "WON" ]_vars

\* C8: whenever gameState is WON every cell that is not a mine is revealed.
C8_WonMeansCleared ==
    gameState = "WON" => AllSafeRevealed(board.cells)

\* the board with every flag and question mark removed
ClearMarks(cells) ==
    [r \in DOMAIN cells |-> [c \in DOMAIN cells[r] |->
        [cells[r][c] EXCEPT !.isFlagged = FALSE, !.isQuestioned = FALSE]]]

\* C9: for every mine count, checkWinCondition holds exactly when the revealed
\* cells number rows*cols minus the count, and gives the same answer for the
\* board with all flag and question marks removed.
C9_WinCondition ==
    \A totalMines \in 0..(board.rows * board.cols) :
        /\ checkWinCondition(board.cells, totalMines)
              <=> (Cardinality(RevealedSet(board.cells))
                      = board.rows * board.cols - totalMines)
        /\ checkWinCondition(ClearMarks(board.cells), totalMines)
              <=> checkWinCondition(board.cells, totalMines)

\* the win condition met on a board that still carries a flag
C9_Witness ==
    /\ MineSet(board.cells) # {}
    /\ checkWinCondition(board.cells, board.totalMines)
    /\ \E pos \in Positions(board.cells) : At(board.cells, pos).isFlagged

\* C10: no cell is flagged and questioned at once, after any sequence of the
\* engine's operations on an empty board.
C10_FlagExcludesQuestion ==
    \A pos \in Positions(board.cells) :
        ~(At(board.cells, pos).isFlagged /\ At(board.cells, pos).isQuestioned)

\* a flag on a board where a question mark can turn into one: the flagged cell
\* carries no question mark and toggleQuestion leaves it alone
C10_Witness ==
    \E pos \in Positions(board.cells) :
        /\ At(board.cells, pos).isFlagged
        /\ ~At(board.cells, pos).isQuestioned
        /\ toggleQuestion(board.cells, pos.row, pos.col) = board.cells
        /\ At(toggleFlag(toggleQuestion(toggleFlag(board.cells, pos.row, pos.col),
                                        pos.row, pos.col),
                         pos.row, pos.col), pos).isFlagged

\* C11: after any sequence of the engine's operations a revealed cell is
\* neither flagged nor questioned.
C11_RevealedUnmarked ==
    \A pos \in Positions(board.cells) :
        At(board.cells, pos).isRevealed =>
            (~At(board.cells, pos).isFlagged /\ ~At(board.cells, pos).isQuestioned)

\* some mine is marked as the exploded one
Exploded(cells) ==
    \E pos \in Positions(cells) : At(cells, pos).isExploded = "true"

\* C12: gameState changes only from IDLE to PLAYING on the first accepted
\* reveal, from PLAYING to LOST when a reveal hits a mine, from PLAYING to WON
\* when all safe cells are revealed, between PLAYING and PAUSED with the board
\* untouched, and from any state to IDLE with a new board; WON and LOST are
\* entered from PLAYING only and left only for IDLE.
C12_StateTransitions ==
    [][ gameState' # gameState =>
          \/ /\ gameState = "IDLE" /\ gameState' = "PLAYING"
             /\ firstClick /\ ~firstClick'
          \/ /\ gameState = "PLAYING" /\ gameState' = "LOST"
             /\ Exploded(board'.cells)
          \/ /\ gameState = "PLAYING" /\ gameState' = "WON"
             /\ AllSafeRevealed(board'.cells)
          \/ /\ gameState = "PLAYING" /\ gameState' = "PAUSED"
             /\ board' = board
          \/ /\ gameState = "PAUSED" /\ gameState' = "PLAYING"
             /\ board' = board
          \/ /\ gameState' = "IDLE"
             /\ firstClick' /\ Fresh(board'.cells) ]_vars

\* C13: while gameState is WON or LOST no cell of the board changes, whatever
\* is requested and whatever deferred reveal is still pending, until newGame
\* replaces the board.
C13_TerminalFrozen ==
    [][ ((gameState = "WON" \/ gameState = "LOST") /\ gameState' = gameState)
            => board' = board ]_vars

\* the step places mines: it is the first accepted reveal of a game
PlacesMines == firstClick /\ ~firstClick'

\* C14: mines are placed by the first accepted reveal of a game only, on a
\* board with no cell revealed yet, and from then on no cell's isMine changes
\* until newGame.
C14_MinesPlacedOnce ==
    [][ /\ PlacesMines => RevealedSet(board.cells) = {}
        /\ (firstClick /\ firstClick') => NoMines(board'.cells)
        /\ (~firstClick /\ ~firstClick') =>
              /\ Positions(board'.cells) = Positions(board.cells)
              /\ MineSet(board'.cells) = MineSet(board.cells) ]_vars

\* what C15 asks of out = revealAllMines(cells, pos): every mine revealed, the
\* cell at pos the only one exploded, the other cells revealed as before
MinesRevealedAt(cells, out, pos) ==
    \A q \in Positions(cells) :
        /\ At(cells, q).isMine => At(out, q).isRevealed
        /\ (At(out, q).isExploded = "true") <=> (q = pos)
        /\ ~At(cells, q).isMine => (At(out, q).isRevealed = At(cells, q).isRevealed)

\* C15: revealAllMines called with the position of a mine reveals every mine,
\* marks the cell at that position and no other as exploded, and leaves the
\* isRevealed of every cell that is not a mine as it was: on every board
\* reached, and on an empty board mined in any way at all.
C15_RevealAllMines ==
    /\ \A pos \in MineSet(board.cells) :
         MinesRevealedAt(board.cells,
                         revealAllMines(board.cells, pos.row, pos.col), pos)
    /\ Fresh(board.cells) =>
         \A mines \in SUBSET Positions(board.cells) : \A pos \in mines :
            LET mined == placeMines(board.cells, mines)
            IN  MinesRevealedAt(mined, revealAllMines(mined, pos.row, pos.col), pos)

\* revealAllMines has run on a board with a cell revealed and a cell hidden
\* among those that are not mines
C15_Witness ==
    /\ Exploded(board.cells)
    /\ \E q \in Positions(board.cells) :
         ~At(board.cells, q).isMine /\ At(board.cells, q).isRevealed
    /\ \E q \in Positions(board.cells) :
         ~At(board.cells, q).isMine /\ ~At(board.cells, q).isRevealed

\* hidden, with neither flag nor question mark
Untouched(cells, pos) ==
    /\ ~At(cells, pos).isRevealed
    /\ ~At(cells, pos).isFlagged
    /\ ~At(cells, pos).isQuestioned

\* C16: toggleFlag applied twice to a cell that is hidden, unflagged and
\* unquestioned gives back the board it started from.
C16_FlagInvolution ==
    \A pos \in Positions(board.cells) :
        Untouched(board.cells, pos) =>
            toggleFlag(toggleFlag(board.cells, pos.row, pos.col), pos.row, pos.col)
                = board.cells

\* a mined board that has been played on, with untouched cells left to flag
C16_Witness ==
    /\ MineSet(board.cells) # {}
    /\ RevealedSet(board.cells) # {}
    /\ \E pos \in Positions(board.cells) : Untouched(board.cells, pos)
    /\ \E pos \in Positions(board.cells) :
         /\ At(board.cells, pos).isFlagged
         /\ Untouched(toggleFlag(board.cells, pos.row, pos.col), pos)

\* C17: toggleFlag on a hidden cell inverts its isFlagged and, when the cell
\* ends flagged, it ends without a question mark; on a revealed cell toggleFlag
\* returns its input board.
C17_ToggleFlag ==
    \A pos \in Positions(board.cells) :
        LET out == toggleFlag(board.cells, pos.row, pos.col)
        IN  IF At(board.cells, pos).isRevealed
            THEN out = board.cells
            ELSE /\ At(out, pos).isFlagged = ~At(board.cells, pos).isFlagged
                 /\ At(out, pos).isFlagged => ~At(out, pos).isQuestioned

\* a board with a revealed cell and a questioned hidden cell to flag
C17_Witness ==
    /\ RevealedSet(board.cells) # {}
    /\ \E pos \in Positions(board.cells) :
         /\ ~At(board.cells, pos).isRevealed
         /\ At(board.cells, pos).isQuestioned
         /\ At(toggleFlag(board.cells, pos.row, pos.col), pos).isFlagged

\* C18: toggleQuestion inverts isQuestioned of a cell that is neither revealed
\* nor flagged and returns its input board for any other cell; applied twice to
\* a cell neither revealed nor flagged it gives back the board it started from.
C18_ToggleQuestion ==
    \A pos \in Positions(board.cells) :
        LET out == toggleQuestion(board.cells, pos.row, pos.col)
        IN  IF At(board.cells, pos).isRevealed \/ At(board.cells, pos).isFlagged
            THEN out = board.cells
            ELSE /\ At(out, pos).isQuestioned = ~At(board.cells, pos).isQuestioned
                 /\ toggleQuestion(out, pos.row, pos.col) = board.cells

\* a board with a questioned cell, and with a revealed cell that toggleQuestion
\* must leave alone
C18_Witness ==
    /\ RevealedSet(board.cells) # {}
    /\ \E pos \in Positions(board.cells) :
         /\ At(board.cells, pos).isQuestioned
         /\ ~At(board.cells, pos).isRevealed
         /\ ~At(toggleQuestion(board.cells, pos.row, pos.col), pos).isQuestioned

\* C19: revealCell on a hidden, unflagged cell that is a mine or has a count
\* above zero returns the board with that one cell revealed and nothing else
\* changed.
C19_RevealSingleCell ==
    \A pos \in Positions(board.cells) :
        (Hidden(board.cells, pos)
         /\ (At(board.cells, pos).isMine \/ At(board.cells, pos).neighborMines > 0))
            => revealCell(board.cells, pos.row, pos.col)
                  = [board.cells EXCEPT ![pos.row][pos.col].isRevealed = TRUE]

\* a numbered cell was revealed alone: all its neighbours are still hidden, and
\* so is the mine, which has a hidden neighbour a flood would have reached
C19_Witness ==
    /\ CountsCurrent(board.cells)
    /\ \E pos \in RevealedSet(board.cells) :
         /\ At(board.cells, pos).neighborMines > 0
         /\ \A q \in Positions(board.cells) :
              Adjacent(pos, q) => ~At(board.cells, q).isRevealed
    /\ \E m \in MineSet(board.cells) :
         /\ Hidden(board.cells, m)
         /\ \E q \in Positions(board.cells) : Adjacent(m, q) /\ Hidden(board.cells, q)

\* the positions just outside the grid, on every side and corner
Outside(cells) ==
    {pos \in [row : -1..Rows(cells), col : -1..Cols(cells)] :
        ~isValidPosition(pos.row, pos.col, Rows(cells), Cols(cells))}

\* C20: for a position outside the grid revealCell returns its input board,
\* and toggleFlag and toggleQuestion each return the input board or throw:
\* none gives a board that differs from the input.
C20_OutOfBounds ==
    \A pos \in Outside(board.cells) :
        /\ revealCell(board.cells, pos.row, pos.col) = board.cells
        /\ toggleFlag(board.cells, pos.row, pos.col) \in {board.cells, TypeError}
        /\ toggleQuestion(board.cells, pos.row, pos.col) \in {board.cells, TypeError}

\* a mined board in play, with hidden cells on its edge and the calls outside
\* the grid ending as the code ends them
C20_Witness ==
    /\ MineSet(board.cells) # {}
    /\ RevealedSet(board.cells) # {}
    /\ \E pos \in Positions(board.cells) : Hidden(board.cells, pos)
    /\ \E pos \in Outside(board.cells) :
         /\ toggleFlag(board.cells, pos.row, pos.col) = TypeError
         /\ toggleQuestion(board.cells, pos.row, pos.col) = TypeError
         /\ revealCell(board.cells, pos.row, pos.col) = board.cells

\* cells is a rows x cols grid whose cell at row r, column c carries r and c
\* and is in its default state
EmptyGrid(cells, rows, cols) ==
    /\ DOMAIN cells = 0..(rows - 1)
    /\ \A r \in DOMAIN cells : DOMAIN cells[r] = 0..(cols - 1)
    /\ Cardinality({<<r, c>> : r \in DOMAIN cells, c \in DOMAIN cells[0]}) = rows * cols
    /\ \A r \in DOMAIN cells : \A c \in DOMAIN cells[r] :
         /\ cells[r][c].row = r
         /\ cells[r][c].col = c
         /\ ~cells[r][c].isMine
         /\ ~cells[r][c].isRevealed
         /\ ~cells[r][c].isFlagged
         /\ ~cells[r][c].isQuestioned
         /\ cells[r][c].neighborMines = 0

\* C21: the board a game starts with, and the board createNewBoard makes for
\* every custom configuration and every preset, is a rows x cols grid with
\* cell (r, c) at row r, column c, and every cell unmined, hidden, unflagged,
\* unquestioned and with neighborMines 0.
C21_EmptyBoard ==
    (firstClick /\ Fresh(board.cells)) =>
        /\ EmptyGrid(board.cells, board.rows, board.cols)
        /\ \A config \in Configs :
             /\ EmptyGrid(initializeEmptyBoard(config.rows, config.cols),
                          config.rows, config.cols)
             /\ EmptyGrid(createNewBoard("CUSTOM", config).cells,
                          config.rows, config.cols)
        /\ \A difficulty \in DOMAIN DIFFICULTY_CONFIGS :
             EmptyGrid(createNewBoard(difficulty, <<>>).cells,
                       DIFFICULTY_CONFIGS[difficulty].rows,
                       DIFFICULTY_CONFIGS[difficulty].cols)

\* a board just created, with more columns than rows
C21_Witness ==
    /\ firstClick
    /\ Fresh(board.cells)
    /\ board.rows = 2
    /\ board.cols = 3
    /\ Rows(board.cells) = 2
    /\ Cols(board.cells) = 3

\* room is left for a first click and its eight neighbours
MinesFit(b) == b.totalMines <= b.rows * b.cols - 9

\* C22: every board newGame creates to replace a game that was started, for
\* whatever configuration it is given, and the board of every preset
\* difficulty, has totalMines <= rows*cols - 9.
C22_MinesLeaveRoom ==
    [][ (gameState # "IDLE" /\ gameState' = "IDLE") =>
            /\ MinesFit(board')
            /\ \A difficulty \in DOMAIN DIFFICULTY_CONFIGS :
                 MinesFit(createNewBoard(difficulty, <<>>)) ]_vars

\* ------------------------------------------- revealCell, object by object
\* The engine's boards are arrays of row arrays of cell objects.  A heap holds
\* the cell objects and the row arrays, each under its address; a board is the
\* array of its rows' addresses.  revealCellOnHeap is revealCell statement by
\* statement on such a heap: what it copies, what it writes, what it shares.

\* the cell object at [row][col] of a board
cellAt(heap, ref, row, col) == heap.cell[heap.rowArr[ref[row]][col]]

\* a board value as objects: cell (r, c) at address r*cols + c + 1, row array
\* r at address r + 1
heapOf(cells) ==
    LET rows == Rows(cells)
        cols == Cols(cells)
    IN  [cell   |-> [a \in 1..(rows * cols) |->
                        cells[(a - 1) \div cols][(a - 1) % cols]],
         rowArr |-> [r1 \in 1..rows |->
                        [c \in 0..(cols - 1) |-> (r1 - 1) * cols + c + 1]]]

boardRef(cells) == [r \in 0..(Rows(cells) - 1) |-> r + 1]

\* the board value a reference stands for
valueOf(heap, ref) ==
    [r \in DOMAIN ref |->
        [c \in DOMAIN heap.rowArr[ref[r]] |-> cellAt(heap, ref, r, c)]]

\* faulty variant: the row arrays are new, the cell objects are shared
copyCells_shallow(heap, ref) ==
    LET rows == Cardinality(DOMAIN ref)
        nr   == Len(heap.rowArr)
    IN  [heap |-> [heap EXCEPT !.rowArr =
                      heap.rowArr \o [r1 \in 1..rows |-> heap.rowArr[ref[r1 - 1]]]],
         ref  |-> [r \in 0..(rows - 1) |-> nr + r + 1]]

\* cells.map(r => r.map(c => ({ ...c }))): new row arrays of new cell objects
copyCells(heap, ref) ==
    LET rows == Cardinality(DOMAIN ref)
        cols == Cardinality(DOMAIN heap.rowArr[ref[0]])
        nc   == Len(heap.cell)
        nr   == Len(heap.rowArr)
    IN  [heap |-> [cell   |-> heap.cell \o
                                [a \in 1..(rows * cols) |->
                                    cellAt(heap, ref, (a - 1) \div cols, (a - 1) % cols)],
                   rowArr |-> heap.rowArr \o
                                [r1 \in 1..rows |->
                                    [c \in 0..(cols - 1) |-> nc + (r1 - 1) * cols + c + 1]]],
         ref  |-> [r \in 0..(rows - 1) |-> nr + r + 1]]

\* the two for loops: newCells[r][c] = revealed[r][c], written into the row
\* arrays of newCells
copyBack(heap, newCells, revealed) ==
    [heap EXCEPT !.rowArr =
        [a \in 1..Len(heap.rowArr) |->
            IF \E r \in DOMAIN newCells : newCells[r] = a
            THEN heap.rowArr[revealed[CHOOSE r \in DOMAIN newCells : newCells[r] = a]]
            ELSE heap.rowArr[a]]]

RECURSIVE revealCellOnHeap(_, _, _, _)
RECURSIVE revealNeighborsOnHeap(_, _, _, _)

\* the forEach over the neighbours, from neighbour i on
revealNeighborsOnHeap(heap, newCells, neighbors, i) ==
    IF i > Len(neighbors)
    THEN [heap |-> heap, ref |-> newCells]
    ELSE LET n == neighbors[i]
             c == cellAt(heap, newCells, n.row, n.col)
         IN  IF ~c.isRevealed /\ ~c.isFlagged
             THEN LET revealed == revealCellOnHeap(heap, newCells, n.row, n.col)
                  IN  revealNeighborsOnHeap(
                          copyBack(revealed.heap, newCells, revealed.ref),
                          newCells, neighbors, i + 1)
             ELSE revealNeighborsOnHeap(heap, newCells, neighbors, i + 1)

\* revealCell(cells, row, col) with cells given by reference: the heap after
\* the call and the reference returned
revealCellOnHeap(heap, cells, row, col) ==
    LET rows == Cardinality(DOMAIN cells)
        cols == Cardinality(DOMAIN heap.rowArr[cells[0]])
    IN  IF ~isValidPosition(row, col, rows, cols)
        THEN [heap |-> heap, ref |-> cells]
        ELSE LET cell == cellAt(heap, cells, row, col)
             IN  IF cell.isRevealed \/ cell.isFlagged
                 THEN [heap |-> heap, ref |-> cells]
                 ELSE LET copy     == copyCells(heap, cells)
                          newCells == copy.ref
                          address  == copy.heap.rowArr[newCells[row]][col]
                          written  == [copy.heap EXCEPT !.cell[address].isRevealed = TRUE]
                      IN  IF cell.neighborMines = 0 /\ ~cell.isMine
                          THEN revealNeighborsOnHeap(written, newCells,
                                   getNeighborPositions(row, col, rows, cols), 1)
                          ELSE [heap |-> written, ref |-> newCells]

\* C23: revealCell leaves every object of its input as it was, through all the
\* nested calls of a flood: after the call each row array and each cell object
\* of the board passed in holds what it held before, and the board returned is
\* the one that carries the reveal.
C23_RevealKeepsInput ==
    \A pos \in Positions(board.cells) \cup Outside(board.cells) :
        LET before == heapOf(board.cells)
            cells  == boardRef(board.cells)
            after  == revealCellOnHeap(before, cells, pos.row, pos.col)
        IN  /\ \A a \in 1..Len(before.cell) : after.heap.cell[a] = before.cell[a]
            /\ \A a \in 1..Len(before.rowArr) : after.heap.rowArr[a] = before.rowArr[a]
            /\ valueOf(after.heap, cells) = board.cells
            /\ valueOf(after.heap, after.ref)
                  = revealCell(board.cells, pos.row, pos.col)

\* a mined board in play on which a reveal still floods over three cells or more
C23_Witness ==
    /\ MineSet(board.cells) # {}
    /\ RevealedSet(board.cells) # {}
    /\ \E pos \in FloodStart(board.cells) :
         Cardinality(RevealedSet(revealCell(board.cells, pos.row, pos.col)))
            >= Cardinality(RevealedSet(board.cells)) + 3

\* ------------------------------------------- revealCell, call by call
\* revealCell with its invocations counted: the board returned and the number
\* of calls of revealCell made, the outermost included.

RECURSIVE revealCellCalls(_, _, _)
RECURSIVE revealNeighborsCalls(_, _, _)

\* faulty variant: revealCell is called for every neighbour, hidden or not
revealNeighborsCalls_unguarded(done, neighbors, i) ==
    IF i > Len(neighbors)
    THEN done
    ELSE LET n      == neighbors[i]
             nested == revealCellCalls(done.cells, n.row, n.col)
         IN  revealNeighborsCalls([cells |-> nested.cells,
                                   calls |-> done.calls + nested.calls],
                                  neighbors, i + 1)

\* the forEach over the neighbours, from neighbour i on; done holds newCells
\* and the calls made so far
revealNeighborsCalls(done, neighbors, i) ==
    IF i > Len(neighbors)
    THEN done
    ELSE LET n == neighbors[i]
         IN  IF ~done.cells[n.row][n.col].isRevealed /\ ~done.cells[n.row][n.col].isFlagged
             THEN LET nested == revealCellCalls(done.cells, n.row, n.col)
                  IN  revealNeighborsCalls([cells |-> nested.cells,
                                            calls |-> done.calls + nested.calls],
                                           neighbors, i + 1)
             ELSE revealNeighborsCalls(done, neighbors, i + 1)

revealCellCalls(cells, row, col) ==
    IF ~isValidPosition(row, col, Rows(cells), Cols(cells))
    THEN [cells |-> cells, calls |-> 1]
    ELSE LET cell == cells[row][col]
         IN  IF cell.isRevealed \/ cell.isFlagged
             THEN [cells |-> cells, calls |-> 1]
             ELSE LET newCells == [cells EXCEPT ![row][col].isRevealed = TRUE]
                  IN  IF cell.neighborMines = 0 /\ ~cell.isMine
                      THEN revealNeighborsCalls([cells |-> newCells, calls |-> 1],
                               getNeighborPositions(row, col, Rows(cells), Cols(cells)), 1)
                      ELSE [cells |-> newCells, calls |-> 1]

\* C24: revealCell returns for every board and position, after at most as
\* many calls of revealCell as the board has cells: each call made for a
\* hidden, unflagged cell reveals one cell that was hidden, so the calls number
\* the cells newly revealed.
C24_RevealBounded ==
    \A pos \in Positions(board.cells) \cup Outside(board.cells) :
        LET run      == revealCellCalls(board.cells, pos.row, pos.col)
            revealed == Cardinality(RevealedSet(run.cells))
                            - Cardinality(RevealedSet(board.cells))
        IN  /\ run.cells = revealCell(board.cells, pos.row, pos.col)
            /\ run.calls <= Rows(board.cells) * Cols(board.cells)
            /\ run.calls = IF revealed = 0 THEN 1 ELSE revealed

\* a mined board with a zero cell whose reveal takes a call for every cell
\* but the mine
C24_Witness ==
    /\ MineSet(board.cells) # {}
    /\ CountsCurrent(board.cells)
    /\ Rows(board.cells) * Cols(board.cells) >= 6
    /\ \E pos \in FloodStart(board.cells) :
         revealCellCalls(board.cells, pos.row, pos.col).calls
            = Rows(board.cells) * Cols(board.cells) - 1

\* C25: a step of newGame, from whatever state, ends with gameState IDLE,
\* firstClick true, timeElapsed and movesCount 0, the timer stopped, and a
\* board of the configuration's dimensions and mine count whose cells are all
\* in their default state.
C25_NewGameResets ==
    [][ \A config \in GameConfigs :
            newGame(config) =>
                /\ gameState' = "IDLE"
                /\ firstClick'
                /\ timeElapsed' = 0
                /\ movesCount' = 0
                /\ ~timerRef'
                /\ board'.rows = config.rows
                /\ board'.cols = config.cols
                /\ board'.totalMines = config.mines
                /\ EmptyGrid(board'.cells, config.rows, config.cols) ]_vars

\* newGame has replaced a game that was started: the state is the initial one
\* while the deferred reveal of that game's first click is still queued
C25_Witness ==
    /\ gameState = "IDLE"
    /\ firstClick
    /\ timeouts # <<>>
    /\ movesCount = 0
    /\ timeElapsed = 0
    /\ ~timerRef
    /\ Fresh(board.cells)

\* the positions a sequence of positions holds
Range(seq) == {seq[i] : i \in 1..Len(seq)}

\* C27: for the dimensions of the board and every position of it,
\* getNeighborPositions returns the in-bounds positions at Chebyshev distance 1,
\* each once and never the position itself; on the 3x3 grid that is 8 for the
\* centre, 5 for an edge cell and 3 for a corner.
C27_NeighborPositions ==
    /\ \A pos \in Positions(board.cells) :
         LET neighbors == getNeighborPositions(pos.row, pos.col, board.rows, board.cols)
         IN  /\ Range(neighbors) = {q \in Positions(board.cells) : Adjacent(pos, q)}
             /\ Len(neighbors) = Cardinality(Range(neighbors))
             /\ pos \notin Range(neighbors)
             /\ (board.rows >= 3 /\ board.cols >= 3) =>
                  LET onRowEdge == pos.row = 0 \/ pos.row = board.rows - 1
                      onColEdge == pos.col = 0 \/ pos.col = board.cols - 1
                  IN  Len(neighbors) = IF onRowEdge /\ onColEdge THEN 3
                                       ELSE IF onRowEdge \/ onColEdge THEN 5
                                       ELSE 8
    /\ Len(getNeighborPositions(1, 1, 3, 3)) = 8
    /\ Len(getNeighborPositions(0, 0, 3, 3)) = 3
    /\ Len(getNeighborPositions(0, 1, 3, 3)) = 5

\* a 3x3 board whose centre was revealed as a zero cell, and with it the eight
\* neighbours the flood took from getNeighborPositions
C27_Witness ==
    /\ board.rows = 3
    /\ board.cols = 3
    /\ IsZero(board.cells, [row |-> 1, col |-> 1])
    /\ \A q \in Positions(board.cells) : At(board.cells, q).isRevealed

\* the cells at the positions of S given the flag, the others left as they are
WithFlags(cells, S) ==
    [r \in DOMAIN cells |-> [c \in DOMAIN cells[r] |->
        IF [row |-> r, col |-> c] \in S
        THEN [cells[r][c] EXCEPT !.isFlagged = TRUE]
        ELSE cells[r][c]]]

\* the cells at the positions of S set revealed, the others left as they are
WithRevealed(cells, S) ==
    [r \in DOMAIN cells |-> [c \in DOMAIN cells[r] |->
        IF [row |-> r, col |-> c] \in S
        THEN [cells[r][c] EXCEPT !.isRevealed = TRUE]
        ELSE cells[r][c]]]

FlaggedSet(cells) == {pos \in Positions(cells) : At(cells, pos).isFlagged}

\* C28: getFlagCount is the number of cells with isFlagged set, on every board
\* reached, after one more toggleFlag on any of its cells, and on the empty
\* board with any set of its cells flagged; remainingMines is totalMines minus the
\* number of flagged cells.
C28_FlagCount ==
    /\ getFlagCount(board.cells) = Cardinality(FlaggedSet(board.cells))
    /\ remainingMines = board.totalMines - Cardinality(FlaggedSet(board.cells))
    /\ \A pos \in Positions(board.cells) :
         LET toggled == toggleFlag(board.cells, pos.row, pos.col)
         IN  getFlagCount(toggled) = Cardinality(FlaggedSet(toggled))
    /\ (firstClick /\ Fresh(board.cells)) =>
         \A S \in SUBSET Positions(board.cells) :
            getFlagCount(WithFlags(board.cells, S)) = Cardinality(S)

\* a flag counted on a board that also carries revealed cells and a mine
C28_Witness ==
    /\ getFlagCount(board.cells) = 1
    /\ remainingMines = 0
    /\ RevealedSet(board.cells) # {}
    /\ \E pos \in MineSet(board.cells) : ~At(board.cells, pos).isFlagged

\* C29: getRevealedCount is the number of cells with isRevealed set, mines
\* among them, on every board reached, after revealing any cell of it, after
\* revealAllMines, and on the empty board with any set of its cells revealed.
C29_RevealedCount ==
    /\ getRevealedCount(board.cells) = Cardinality(RevealedSet(board.cells))
    /\ \A pos \in Positions(board.cells) :
         /\ LET revealed == revealCell(board.cells, pos.row, pos.col)
            IN  getRevealedCount(revealed) = Cardinality(RevealedSet(revealed))
         /\ LET shown == revealAllMines(board.cells, pos.row, pos.col)
            IN  getRevealedCount(shown) = Cardinality(RevealedSet(shown))
    /\ (firstClick /\ Fresh(board.cells)) =>
         \A S \in SUBSET Positions(board.cells) :
            getRevealedCount(WithRevealed(board.cells, S)) = Cardinality(S)

\* a count that includes a revealed mine next to revealed safe cells
C29_Witness ==
    /\ getRevealedCount(board.cells) >= 3
    /\ \E pos \in MineSet(board.cells) : At(board.cells, pos).isRevealed
    /\ \E pos \in Positions(board.cells) :
         ~At(board.cells, pos).isMine /\ At(board.cells, pos).isRevealed
    /\ \E pos \in Positions(board.cells) : ~At(board.cells, pos).isRevealed

\* the cells whose isRevealed differs between two boards of one size
RevealDiff(before, after) ==
    {q \in Positions(before) : At(before, q).isRevealed # At(after, q).isRevealed}

\* C30: on every board, counts computed or not, and for every hidden, unflagged
\* cell p, the cells whose isRevealed differs between the board and
\* revealCell of p are exactly the least set holding p and, with each non-mine
\* cell of count 0, its neighbours hidden and unflagged before the call; no
\* flagged cell is among them and every other field of every cell is kept.
C30_FloodExact ==
    \A pos \in Positions(board.cells) :
        Hidden(board.cells, pos) =>
            LET revealed == revealCell(board.cells, pos.row, pos.col)
                S        == FloodClosure(board.cells, {pos})
            IN  /\ RevealDiff(board.cells, revealed) = S
                /\ \A q \in S : ~At(board.cells, q).isFlagged
                /\ \A q \in Positions(board.cells) :
                     revealed[q.row][q.col] =
                        [board.cells[q.row][q.col] EXCEPT
                            !.isRevealed = @ \/ q \in S]

\* a mined board with counts where a flag on a zero cell cuts the flood of a
\* hidden zero cell off from a safe cell that is hidden and unflagged
C30_Witness ==
    /\ MineSet(board.cells) # {}
    /\ CountsCurrent(board.cells)
    /\ \E pos \in FloodStart(board.cells) :
         LET S == FloodClosure(board.cells, {pos})
         IN  /\ Cardinality(S) >= 4
             /\ RevealDiff(board.cells,
                           revealCell(board.cells, pos.row, pos.col)) = S
             /\ \E f \in Positions(board.cells) :
                  /\ At(board.cells, f).isFlagged
                  /\ IsZero(board.cells, f)
                  /\ \E z \in S : IsZero(board.cells, z) /\ Adjacent(z, f)
                  /\ \E q \in Positions(board.cells) \ S :
                       /\ Hidden(board.cells, q)
                       /\ IsZero(board.cells, q)
                       /\ Adjacent(f, q)

\* C31: while gameState is IDLE no cell of the board is revealed and no cell is
\* a mine, whatever deferred reveal of a previous game is still pending.
C31_IdleBoardUntouched ==
    gameState = "IDLE" =>
        (RevealedSet(board.cells) = {} /\ NoMines(board.cells))

\* some mine of the board is revealed
MineRevealed(cells) ==
    \E pos \in MineSet(cells) : At(cells, pos).isRevealed

\* C32: no mine is revealed while gameState is IDLE, PLAYING, PAUSED or WON,
\* and a step that reveals a mine is a step into LOST.
C32_MineRevealedOnlyLost ==
    [][ /\ gameState' # "LOST" => ~MineRevealed(board'.cells)
        /\ (~MineRevealed(board.cells) /\ MineRevealed(board'.cells))
              => (gameState # "LOST" /\ gameState' = "LOST") ]_vars

\* C33: on a board whose counts are those calculateNeighborMines computes,
\* revealCell on a cell that is not a mine leaves hidden every mine that was
\* hidden, whatever cells are flagged, questioned or already revealed.
C33_RevealSparesMines ==
    CountsCurrent(board.cells) =>
        \A pos \in Positions(board.cells) :
            ~At(board.cells, pos).isMine =>
                LET revealed == revealCell(board.cells, pos.row, pos.col)
                IN  /\ MineSet(revealed) = MineSet(board.cells)
                    /\ \A q \in MineSet(board.cells) :
                         At(revealed, q).isRevealed = At(board.cells, q).isRevealed

\* a flood on a mined board that stopped at the cells counting the mine, with
\* a flag and revealed cells around: the mine is hidden
C33_Witness ==
    /\ CountsCurrent(board.cells)
    /\ \E m \in MineSet(board.cells) :
         /\ ~At(board.cells, m).isRevealed
         /\ \E q \in Positions(board.cells) :
              /\ Adjacent(m, q)
              /\ At(board.cells, q).isRevealed
              /\ At(board.cells, q).neighborMines = 1
    /\ \E z \in RevealedSet(board.cells) : IsZero(board.cells, z)
    /\ \E f \in Positions(board.cells) :
         At(board.cells, f).isFlagged /\ ~At(board.cells, f).isMine
    /\ \E pos \in Positions(board.cells) :
         /\ Hidden(board.cells, pos)
         /\ ~At(board.cells, pos).isMine
         /\ RevealDiff(board.cells, revealCell(board.cells, pos.row, pos.col)) # {}

\* the callback that runs in this step was queued by the first click of the
\* game now played: callbacks run in the order queued and a game queues one
OwnDeferredStep == DeferredStep /\ ~firstClick /\ Len(timeouts) = 1

\* C34: the step handling the first accepted reveal of a game, at p, leaves p
\* without a mine and with neighborMines = 0, and the deferred reveal that
\* click queued leaves revealed p and every in-bounds neighbour of p that is
\* not flagged.
C34_FirstRevealOpens ==
    [][ /\ PlacesMines =>
             LET p == timeouts'[Len(timeouts')]
             IN  ~At(board'.cells, p).isMine /\ At(board'.cells, p).neighborMines = 0
        /\ OwnDeferredStep =>
             LET p == Head(timeouts)
             IN  /\ At(board'.cells, p).isRevealed
                 /\ \A q \in Positions(board'.cells) :
                      (Adjacent(p, q) /\ ~At(board'.cells, q).isFlagged)
                          => At(board'.cells, q).isRevealed ]_vars

\* every cell revealed in before is revealed in after
KeepsRevealed(before, after) ==
    /\ Positions(after) = Positions(before)
    /\ RevealedSet(before) \subseteq RevealedSet(after)

\* no function of the engine hides a revealed cell of the board reached
EngineKeepsRevealed ==
    /\ KeepsRevealed(board.cells, calculateNeighborMines(board.cells))
    /\ \A pos \in Positions(board.cells) :
         /\ KeepsRevealed(board.cells, revealCell(board.cells, pos.row, pos.col))
         /\ KeepsRevealed(board.cells, toggleFlag(board.cells, pos.row, pos.col))
         /\ KeepsRevealed(board.cells, toggleQuestion(board.cells, pos.row, pos.col))
         /\ KeepsRevealed(board.cells, revealAllMines(board.cells, pos.row, pos.col))
         /\ \A minePositions \in
                 minePositionChoices(board.cells, board.totalMines, pos) :
              KeepsRevealed(board.cells, placeMines(board.cells, minePositions))

\* C35: revealCell, toggleFlag, toggleQuestion, placeMines,
\* calculateNeighborMines and revealAllMines never turn a cell's isRevealed
\* from true to false, on any board a game reaches, and a step of the hook
\* that hides a revealed cell or changes the grid is a newGame step.
C35_RevealMonotonic ==
    /\ []EngineKeepsRevealed
    /\ [][ ~KeepsRevealed(board.cells, board'.cells)
              => (gameState' = "IDLE" /\ firstClick' /\ Fresh(board'.cells)) ]_vars

\* a lost game: revealAllMines has run on a board with revealed safe cells,
\* which stay revealed next to the mines
C35_Witness ==
    /\ gameState = "LOST"
    /\ Exploded(board.cells)
    /\ \E pos \in RevealedSet(board.cells) : ~At(board.cells, pos).isMine
    /\ \E pos \in Positions(board.cells) :
         At(board.cells, pos).isFlagged \/ At(board.cells, pos).isQuestioned

\* after is a grid of the size of before whose cells keep row, col and id
SameGrid(before, after) ==
    /\ DOMAIN after = DOMAIN before
    /\ \A r \in DOMAIN before :
         /\ DOMAIN after[r] = DOMAIN before[r]
         /\ \A c \in DOMAIN before[r] :
              /\ after[r][c].row = before[r][c].row
              /\ after[r][c].col = before[r][c].col
              /\ after[r][c].id = before[r][c].id

\* C36: on every board reached, placeMines changes only isMine, keeping the
\* flags and question marks; calculateNeighborMines changes only neighborMines
\* of cells that are not mines; revealCell changes only isRevealed; toggleFlag
\* and toggleQuestion change only isFlagged and isQuestioned of the target
\* cell; each keeps the grid's size and every cell's row, col and id.
C36_FrameEffects ==
    /\ LET counted == calculateNeighborMines(board.cells)
       IN  /\ SameGrid(board.cells, counted)
           /\ \A q \in Positions(board.cells) :
                /\ At(counted, q) =
                      [At(board.cells, q) EXCEPT !.neighborMines = At(counted, q).neighborMines]
                /\ At(board.cells, q).isMine => At(counted, q) = At(board.cells, q)
    /\ \A pos \in Positions(board.cells) :
         /\ \A minePositions \in
                 minePositionChoices(board.cells, board.totalMines, pos) :
              LET mined == placeMines(board.cells, minePositions)
              IN  /\ SameGrid(board.cells, mined)
                  /\ \A q \in Positions(board.cells) :
                       At(mined, q) =
                          [At(board.cells, q) EXCEPT !.isMine = At(mined, q).isMine]
         /\ LET revealed == revealCell(board.cells, pos.row, pos.col)
            IN  /\ SameGrid(board.cells, revealed)
                /\ \A q \in Positions(board.cells) :
                     At(revealed, q) =
                        [At(board.cells, q) EXCEPT !.isRevealed = At(revealed, q).isRevealed]
         /\ LET flagged == toggleFlag(board.cells, pos.row, pos.col)
            IN  /\ SameGrid(board.cells, flagged)
                /\ \A q \in Positions(board.cells) \ {pos} :
                     At(flagged, q) = At(board.cells, q)
                /\ At(flagged, pos) =
                      [At(board.cells, pos) EXCEPT
                          !.isFlagged = At(flagged, pos).isFlagged,
                          !.isQuestioned = At(flagged, pos).isQuestioned]
         /\ LET questioned == toggleQuestion(board.cells, pos.row, pos.col)
            IN  /\ SameGrid(board.cells, questioned)
                /\ \A q \in Positions(board.cells) \ {pos} :
                     At(questioned, q) = At(board.cells, q)
                /\ At(questioned, pos) =
                      [At(board.cells, pos) EXCEPT
                          !.isFlagged = At(questioned, pos).isFlagged,
                          !.isQuestioned = At(questioned, pos).isQuestioned]

\* a board marked before the first click, with room for a mine away from some
\* click: placeMines has a flag or question mark to keep
C36_Witness ==
    /\ firstClick
    /\ NoMines(board.cells)
    /\ \E pos \in Positions(board.cells) :
         At(board.cells, pos).isFlagged \/ At(board.cells, pos).isQuestioned
    /\ \E pos \in Positions(board.cells) :
         \E minePositions \in minePositionChoices(board.cells, board.totalMines, pos) :
            /\ minePositions # {}
            /\ MarkCount(placeMines(board.cells, minePositions)) = 1

ExplodedSet(cells) ==
    {pos \in Positions(cells) : At(cells, pos).isExploded = "true"}

\* the cells at the positions of S mined, the others left as they are
WithMines(cells, S) ==
    [r \in DOMAIN cells |-> [c \in DOMAIN cells[r] |->
        IF [row |-> r, col |-> c] \in S
        THEN [cells[r][c] EXCEPT !.isMine = TRUE]
        ELSE cells[r][c]]]

\* C37: in every state of the hook at most one cell has isExploded = true, such
\* a cell exists only while gameState is LOST, and it is a revealed mine; and
\* while a losing click can be accepted, revealAllMines for the clicked mine,
\* whatever further cells of the grid carry mines, leaves that mine as the
\* only exploded cell.
C37_OneExploded ==
    /\ Cardinality(ExplodedSet(board.cells)) <= 1
    /\ ExplodedSet(board.cells) # {} => gameState = "LOST"
    /\ \A pos \in ExplodedSet(board.cells) :
         At(board.cells, pos).isMine /\ At(board.cells, pos).isRevealed
    /\ gameState \in {"PLAYING", "PAUSED"} =>
         \A S \in SUBSET Positions(board.cells) :
            \A pos \in S :
                LET shown == revealAllMines(WithMines(board.cells, S), pos.row, pos.col)
                IN  /\ ExplodedSet(shown) = {pos}
                    /\ At(shown, pos).isMine /\ At(shown, pos).isRevealed

\* a lost game whose exploded mine is on the board while a deferred reveal is
\* still pending
C37_Witness ==
    /\ gameState = "LOST"
    /\ Cardinality(ExplodedSet(board.cells)) = 1
    /\ timeouts # <<>>
    /\ \E pos \in ExplodedSet(board.cells) :
         At(board.cells, pos).isMine /\ At(board.cells, pos).isRevealed

\* C38: on every board reached, for two hidden, unflagged cells p and q that
\* are not mines, revealCell of p then q and revealCell of q then p give the
\* same board, cell by cell and field by field; the cells they reveal are the
\* least flood set holding p and q.
C38_RevealCommutes ==
    \A p, q \in Positions(board.cells) :
        (/\ p # q
         /\ Hidden(board.cells, p) /\ ~At(board.cells, p).isMine
         /\ Hidden(board.cells, q) /\ ~At(board.cells, q).isMine) =>
            LET pq == revealCell(revealCell(board.cells, p.row, p.col), q.row, q.col)
                qp == revealCell(revealCell(board.cells, q.row, q.col), p.row, p.col)
            IN  /\ pq = qp
                /\ RevealDiff(board.cells, pq) = FloodClosure(board.cells, {p, q})

\* a mined board with a flag where two hidden safe cells flood differently: a
\* zero cell p and a cell q its flood does not reach, whose own reveal adds to it
C38_Witness ==
    /\ MineSet(board.cells) # {}
    /\ CountsCurrent(board.cells)
    /\ FlaggedSet(board.cells) # {}
    /\ \E p \in FloodStart(board.cells) :
         \E q \in Positions(board.cells) :
            /\ Hidden(board.cells, q)
            /\ ~At(board.cells, q).isMine
            /\ q \notin FloodClosure(board.cells, {p})
            /\ Cardinality(FloodClosure(board.cells, {p})) >= 3
            /\ revealCell(revealCell(board.cells, p.row, p.col), q.row, q.col)
                 # revealCell(board.cells, p.row, p.col)
            /\ revealCell(revealCell(board.cells, p.row, p.col), q.row, q.col)
                 = revealCell(revealCell(board.cells, q.row, q.col), p.row, p.col)

\* C39: in every state of the hook the interval timer is running exactly when
\* gameState is PLAYING, and timeElapsed grows only in steps taken in PLAYING.
C39_TimerIffPlaying ==
    /\ [](timerRef <=> gameState = "PLAYING")
    /\ [][ timeElapsed' > timeElapsed => (gameState = "PLAYING" /\ gameState' = "PLAYING") ]_vars

\* a paused game whose timer has counted and now stands still, with the
\* first click's reveal done
C39_Witness ==
    /\ gameState = "PAUSED"
    /\ ~timerRef
    /\ timeElapsed = MaxTime
    /\ timeouts = <<>>
    /\ RevealedSet(board.cells) # {}

====
